---- MODULE Spec2Model ----
(***************************************************************************)
(* proslenkey: a GTK4 layer-shell command launcher (src/src/__main__.py).  *)
(*                                                                         *)
(* A string is a sequence of characters; a character is a one-symbol       *)
(* token ("a", " ", "'") or a named control character ("BS", "ESC").       *)
(***************************************************************************)
EXTENDS Integers, Sequences, FiniteSets, TLC

VARIABLES
    path,          \* os.getenv("PATH", "").split(os.pathsep)
    pc,            \* "new" | "running" | "crashed" | "terminated"
    commands,      \* Launcher.commands
    prevCommands,  \* Launcher.commands of the previous run of main(), or <<"none">>
    text,          \* self.entry.get_text()
    matchlist,     \* labels of the buttons in self.suggestion_box, in order
    visible,       \* self.scroller visible
    hexpand,       \* self.entry hexpand
    focus,         \* 0: the Entry has focus; i > 0: the i-th suggestion button
    launched,      \* the subprocess.Popen calls made so far, in order
    ev,            \* the event delivered last: the signal ("changed", "activate",
                   \* "key", "click"; "passed" for a key no handler took), and what
                   \* the handler that took it was given: keyval, modifier state,
                   \* the label it read (cmd), the widget that had the focus
    sub,           \* subseqmatch: argument sub
    full,          \* subseqmatch: argument full
    result         \* subseqmatch: value returned, or "none" before the call

vars == <<path, pc, commands, prevCommands, text, matchlist, visible, hexpand,
          focus, launched, ev, sub, full, result>>

uiVars == <<text, matchlist, visible, hexpand, focus, launched>>
matchVars == <<sub, full, result>>

-----------------------------------------------------------------------------
(* Bounds of the model *)

MaxLen == 3        \* longest entry text the user types
MaxPath == 2       \* longest PATH drawn for the index-build specification
MaxSeed == 2       \* set-iteration orders tried per build
MaxStr == 3        \* longest string handed to subseqmatch on its own

-----------------------------------------------------------------------------
(* Characters and strings *)

\* code point of a character (Python compares str by code point)
Ord(c) ==
    CASE c = "BS" -> 8
      [] c = "TAB" -> 9
      [] c = "CR" -> 13
      [] c = "ESC" -> 27
      [] c = " " -> 32
      [] c = "\"" -> 34
      [] c = "'" -> 39
      [] c = "a" -> 97
      [] c = "b" -> 98
      [] c = "c" -> 99
      [] c = "k" -> 107
      [] c = "l" -> 108
      [] c = "s" -> 115
      [] c = "t" -> 116
      [] c = "x" -> 120

Range(s) == {s[i] : i \in 1..Len(s)}

\* Python: s < t on str
RECURSIVE StrLess(_, _)
StrLess(s, t) ==
    IF t = <<>> THEN FALSE
    ELSE IF s = <<>> THEN TRUE
    ELSE IF Head(s) = Head(t) THEN StrLess(Tail(s), Tail(t))
    ELSE Ord(Head(s)) < Ord(Head(t))

\* strings over alphabet A of length lo..hi
StringsOver(A, lo, hi) == UNION {[1..n -> A] : n \in lo..hi}

Min(a, b) == IF a < b THEN a ELSE b

-----------------------------------------------------------------------------
(* The file system and environment the launcher is started in *)

\* the names of /bin: every string of one to four letters over {a, b}
BinNames == StringsOver({"a", "b"}, 1, 4)

\* an executable regular file
Exe(name) == [name |-> name, file |-> TRUE, exec |-> TRUE]

\* Path(p): Path("") is the current directory
PathOf(p) == IF p = "" THEN "." ELSE p

\* p.is_dir()
IsDir(p) == p \in {"/bin", "/usr/bin", "/opt/x", "/root/priv", "."}

\* whether the user may list directory p (os.scandir succeeds)
Readable(p) == p # "/root/priv"

\* the entries of directory p
Entries(p) ==
    CASE p = "/bin" -> {Exe(n) : n \in BinNames}
      [] p = "/usr/bin" ->
            { Exe(<<"l", "s">>), Exe(<<"l", "s", "b", "l", "k">>),
              Exe(<<"c", "a", "t">>), Exe(<<"a">>),
              [name |-> <<"a", "l">>, file |-> TRUE, exec |-> FALSE],
              [name |-> <<"l", "a">>, file |-> FALSE, exec |-> TRUE] }
      [] p = "/opt/x" ->
            { Exe(<<"a", " ", "b">>), Exe(<<"a", "'", "b">>), Exe(<<"l", "s">>),
              Exe(<<"t", "k">>) }
      [] p = "/root/priv" -> { Exe(<<"c", "a", "t">>), Exe(<<"x">>) }
      [] p = "." -> { Exe(<<"l">>), Exe(<<"a", "x">>) }
      [] OTHER -> {}

\* the components a PATH may name
PathDirs == {"/bin", "/usr/bin", "/opt/x", "/root/priv", "/nonexistent", ""}

\* every PATH of at most n components
PathsUpTo(n) == UNION {[1..k -> PathDirs] : k \in 0..n}

\* the PATHs the launcher is started with in Spec
PathChoices ==
    { <<"/usr/bin", "/bin", "/opt/x">>,
      <<"/usr/bin", "/nonexistent", "/opt/x", "/usr/bin">>,
      <<"/usr/bin", "/root/priv", "/opt/x">>,
      <<"">> }

-----------------------------------------------------------------------------
(* get_path_commands *)

\* the names of S in ascending code-point order
RECURSIVE Ascending(_)
Ascending(S) ==
    IF S = {} THEN <<>>
    ELSE LET m == CHOOSE x \in S : \A y \in S \ {x} : StrLess(x, y)
         IN  <<m>> \o Ascending(S \ {m})

Reverse(q) == [i \in 1..Len(q) |-> q[Len(q) + 1 - i]]

Rotate(q, r) == [i \in 1..Len(q) |-> q[((i - 1 + r) % Len(q)) + 1]]

\* the order in which iterating over the set S yields its elements; it depends
\* on the interpreter's hash seed
IterOrder(S, seed) ==
    LET q == Ascending(S)
    IN  IF seed % 2 = 1 THEN Reverse(Rotate(q, seed \div 2))
        ELSE Rotate(q, seed \div 2)

\* a sort key that forgets the name
SortKeyLessLenOnly(a, b) == Len(a) < Len(b)

\* key=lambda c: (len(c), c): whether key(a) < key(b)
SortKeyLess(a, b) == Len(a) < Len(b) \/ (Len(a) = Len(b) /\ StrLess(a, b))

\* x put into the sorted sequence s, behind the elements whose key is not greater
RECURSIVE InsertSorted(_, _)
InsertSorted(x, s) ==
    IF s = <<>> THEN <<x>>
    ELSE IF SortKeyLess(x, Head(s)) THEN <<x>> \o s
    ELSE <<Head(s)>> \o InsertSorted(x, Tail(s))

\* sorted(q, key=...): a stable sort
RECURSIVE SortedInto(_, _)
SortedInto(q, acc) ==
    IF q = <<>> THEN acc ELSE SortedInto(Tail(q), InsertSorted(Head(q), acc))

sorted(q) == SortedInto(q, <<>>)

\* the loop over PATH from component i on, with the names collected so far;
\* iterdir() on a directory that may not be listed raises PermissionError
RECURSIVE ScanFrom(_, _, _)
ScanFrom(pth, i, acc) ==
    IF i > Len(pth) THEN [raised |-> FALSE, names |-> acc]
    ELSE LET p == PathOf(pth[i])
         IN  IF ~IsDir(p) THEN ScanFrom(pth, i + 1, acc)
             ELSE IF ~Readable(p) THEN [raised |-> TRUE, names |-> acc]
             ELSE ScanFrom(pth, i + 1,
                           acc \cup {f.name : f \in {e \in Entries(p) : e.file /\ e.exec}})

get_path_commands(pth, seed) ==
    LET scan == ScanFrom(pth, 1, {})
    IN  IF scan.raised THEN [raised |-> TRUE, value |-> <<>>]
        ELSE [raised |-> FALSE, value |-> sorted(IterOrder(scan.names, seed))]

-----------------------------------------------------------------------------
(* subseqmatch *)

\* full.find(c, start): the lowest 0-based index >= start holding c, or -1
RECURSIVE Find(_, _, _)
Find(fullstr, c, start) ==
    IF start >= Len(fullstr) THEN -1
    ELSE IF fullstr[start + 1] = c THEN start
    ELSE Find(fullstr, c, start + 1)

\* the loop of subseqmatch with pos as it stands
RECURSIVE MatchFrom(_, _, _)
MatchFrom(substr, fullstr, pos) ==
    IF substr = <<>> THEN TRUE
    ELSE LET p == Find(fullstr, Head(substr), pos + 1)
         IN  IF p = -1 THEN FALSE ELSE MatchFrom(Tail(substr), fullstr, p)

\* a matcher that searches from pos, not pos + 1
RECURSIVE MatchFromSamePos(_, _, _)
MatchFromSamePos(substr, fullstr, pos) ==
    IF substr = <<>> THEN TRUE
    ELSE LET p == Find(fullstr, Head(substr), IF pos < 0 THEN 0 ELSE pos)
         IN  IF p = -1 THEN FALSE ELSE MatchFromSamePos(Tail(substr), fullstr, p)

subseqmatchSamePos(substr, fullstr) ==
    IF substr = <<>> THEN FALSE ELSE MatchFromSamePos(substr, fullstr, -1)

\* a matcher without the test for an empty sub
subseqmatchNoEmptyTest(substr, fullstr) == MatchFrom(substr, fullstr, -1)

subseqmatch(substr, fullstr) ==
    IF substr = <<>> THEN FALSE ELSE MatchFrom(substr, fullstr, -1)

-----------------------------------------------------------------------------
(* shlex.quote and str.strip *)

\* characters shlex leaves unquoted: [A-Za-z0-9_@%+=:,./-]
SafeChar(c) == c \in {"a", "b", "c", "k", "l", "s", "t", "x"}

\* s.replace("'", "'\"'\"'")
RECURSIVE EscapeQuotes(_)
EscapeQuotes(s) ==
    IF s = <<>> THEN <<>>
    ELSE (IF Head(s) = "'" THEN <<"'", "\"", "'", "\"", "'">> ELSE <<Head(s)>>)
         \o EscapeQuotes(Tail(s))

\* shlex.quote(s)
quote(s) ==
    IF s = <<>> THEN <<"'", "'">>
    ELSE IF \A i \in 1..Len(s) : SafeChar(s[i]) THEN s
    ELSE <<"'">> \o EscapeQuotes(s) \o <<"'">>

\* str.isspace for one character
IsSpace(c) == c \in {" ", "TAB", "CR"}

RECURSIVE lstrip(_)
lstrip(s) == IF s # <<>> /\ IsSpace(Head(s)) THEN lstrip(Tail(s)) ELSE s

RECURSIVE rstrip(_)
rstrip(s) ==
    IF s # <<>> /\ IsSpace(s[Len(s)]) THEN rstrip(SubSeq(s, 1, Len(s) - 1)) ELSE s

\* s.strip()
strip(s) == rstrip(lstrip(s))

-----------------------------------------------------------------------------
(* Keys and modifiers (Gdk) *)

\* the characters the user types in this model
TypeChars == {"a", "l", " "}

\* the keys the user presses in this model, by the name of their keyval
\* (Gdk.KEY_a, Gdk.KEY_space, ...)
KeyVals ==
    { "a", "l", "space", "BackSpace", "Return", "Escape", "Tab",
      "ISO_Left_Tab", "Shift_L", "Control_L", "Left" }

\* Gdk.keyval_to_unicode(keyval) as a string: empty when the code point is 0
keyval_to_unicode(k) ==
    CASE k \in {"a", "l"} -> <<k>>
      [] k = "space" -> <<" ">>
      [] k = "BackSpace" -> <<"BS">>
      [] k = "Return" -> <<"CR">>
      [] k = "Escape" -> <<"ESC">>
      [] k \in {"Tab", "KP_Tab"} -> <<"TAB">>
      [] OTHER -> <<>>

\* a Gdk.ModifierType value is the set of the masks that are set in it
Masks == {"SHIFT_MASK", "LOCK_MASK", "CONTROL_MASK"}
ModifierStates == SUBSET Masks

\* Gdk.ModifierType.CONTROL_MASK
CONTROL_MASK == {"CONTROL_MASK"}

\* state == Gdk.ModifierType.CONTROL_MASK
IsPickState(state) == state = CONTROL_MASK

\* a pass list that lacks Escape
ScrollerPassKeysNoEscape ==
    { "Tab", "KP_Tab", "ISO_Left_Tab", "Return",
      "Shift_L", "Shift_R", "Control_L", "Control_R" }

\* a pass list that lacks Tab
ScrollerPassKeysNoTab ==
    { "KP_Tab", "ISO_Left_Tab", "Escape", "Return",
      "Shift_L", "Shift_R", "Control_L", "Control_R" }

\* the keys on_scroller_key_pressed leaves to GTK
ScrollerPassKeys ==
    { "Tab", "KP_Tab", "ISO_Left_Tab", "Escape", "Return",
      "Shift_L", "Shift_R", "Control_L", "Control_R" }

-----------------------------------------------------------------------------
(* Launcher *)

MaxSuggestions == 20

NoEvent == [type |-> "none", key |-> "", mods |-> {}, cmd |-> <<>>, on |-> "entry"]
KeyEvent(k, m, c, w) == [type |-> "key", key |-> k, mods |-> m, cmd |-> c, on |-> w]
ChangedEvent == [type |-> "changed", key |-> "", mods |-> {}, cmd |-> <<>>, on |-> "entry"]
ActivateEvent == [type |-> "activate", key |-> "", mods |-> {}, cmd |-> <<>>, on |-> "entry"]
PassedEvent(k, w) == [type |-> "passed", key |-> k, mods |-> {}, cmd |-> <<>>, on |-> w]
ClickEvent(m, c) == [type |-> "click", key |-> "", mods |-> m, cmd |-> c, on |-> "button"]

\* a show that leaves the entry expanded
show_suggestionsKeepExpand == visible' = TRUE /\ hexpand' = TRUE

show_suggestions == visible' = TRUE /\ hexpand' = FALSE

hide_suggestions == visible' = FALSE /\ hexpand' = TRUE

\* a slice that drops the first match
first_matchesSkipOne(matches) ==
    SubSeq(matches, 2, Min(MaxSuggestions + 1, Len(matches)))

\* matches[:20]
first_matches(matches) == SubSeq(matches, 1, Min(MaxSuggestions, Len(matches)))

\* [command for command in self.commands if subseqmatch(text, command)]
all_matches(t) == SelectSeq(commands, LAMBDA c : subseqmatch(t, c))

refresh_suggestions(t) ==
    LET matches == all_matches(t)
    IN  IF matches = <<>>
        THEN matchlist' = <<>> /\ hide_suggestions
        ELSE show_suggestions /\ matchlist' = first_matches(matches)

on_entry_changed(t) == refresh_suggestions(t)

\* a set_text whose "changed" signal nobody listens to
set_textNoRefresh(new) == text' = new /\ UNCHANGED <<matchlist, visible, hexpand>>

\* self.entry.set_text(new): the entry emits "changed"
set_text(new) == text' = new /\ on_entry_changed(new)

\* an append that treats "\b" as any other character
append_charNoBackspace(char) == set_text(text \o char)

append_char(char) ==
    set_text(IF char # <<"BS">> THEN text \o char
             ELSE SubSeq(text, 1, Len(text) - 1))

\* a focus_entry that grabs nothing
focus_entryStay == focus' = focus

focus_entry == focus' = 0

\* a set_cmd that puts the name into the entry as it is
set_cmdUnquoted(cmd) == set_text(cmd)

set_cmd(cmd) == set_text(quote(cmd))

\* a quit that leaves the main loop running
quitStay == pc' = pc

quit == pc' = "terminated"

\* a launch that passes the name to the shell as it is
exec_oneUnquoted(cmd) == launched' = Append(launched, [args |-> cmd, shell |-> TRUE])

\* subprocess.Popen(shlex.quote(cmd), shell=True)
exec_one(cmd) == launched' = Append(launched, [args |-> quote(cmd), shell |-> TRUE])

\* an activation that runs the line without looking at it
on_activate_entryNoGuard ==
    /\ launched' = Append(launched, [args |-> strip(text), shell |-> TRUE])
    /\ quit
    /\ UNCHANGED <<text, matchlist, visible, hexpand, focus>>

\* an activation that hands the line to exec_one, as one quoted token
on_activate_entryQuoted ==
    LET cmdline == strip(text)
    IN  IF cmdline = <<>>
        THEN UNCHANGED <<pc, text, matchlist, visible, hexpand, focus, launched>>
        ELSE /\ exec_one(cmdline)
             /\ quit
             /\ UNCHANGED <<text, matchlist, visible, hexpand, focus>>

on_activate_entry ==
    LET cmdline == strip(text)
    IN  IF cmdline = <<>>
        THEN UNCHANGED <<pc, text, matchlist, visible, hexpand, focus, launched>>
        ELSE /\ launched' = Append(launched, [args |-> cmdline, shell |-> TRUE])
             /\ quit
             /\ UNCHANGED <<text, matchlist, visible, hexpand, focus>>

\* on_key_pressed, for the key it handles
on_key_pressed(keyval, state) ==
    /\ keyval = "Escape"
    /\ quit
    /\ UNCHANGED uiVars

\* a scroller handler that appends and keeps the focus where it is
on_scroller_key_pressedNoFocus(keyval, state) ==
    /\ keyval \notin ScrollerPassKeys
    /\ append_char(keyval_to_unicode(keyval))
    /\ UNCHANGED <<pc, launched, focus>>

\* on_scroller_key_pressed, for the keys it handles
on_scroller_key_pressed(keyval, state) ==
    /\ keyval \notin ScrollerPassKeys
    /\ append_char(keyval_to_unicode(keyval))
    /\ focus_entry
    /\ UNCHANGED <<pc, launched>>

\* a button handler under which Space activates the button
on_btn_key_pressedSpaceActivates(keyval, state, cmd) ==
    \/ /\ keyval = "space"
       /\ exec_one(cmd) /\ quit
       /\ UNCHANGED <<text, matchlist, visible, hexpand, focus>>
    \/ /\ keyval = "Return"
       /\ IF IsPickState(state)
          THEN set_cmd(cmd) /\ focus_entry /\ UNCHANGED <<pc, launched>>
          ELSE exec_one(cmd) /\ quit
               /\ UNCHANGED <<text, matchlist, visible, hexpand, focus>>

\* on_btn_key_pressed on the button labelled cmd, for the keys it handles
on_btn_key_pressed(keyval, state, cmd) ==
    \/ /\ keyval = "space"
       /\ append_char(<<" ">>)
       /\ focus_entry
       /\ UNCHANGED <<pc, launched>>
    \/ /\ keyval = "Return"
       /\ IF IsPickState(state)
          THEN set_cmd(cmd) /\ focus_entry /\ UNCHANGED <<pc, launched>>
          ELSE exec_one(cmd) /\ quit
               /\ UNCHANGED <<text, matchlist, visible, hexpand, focus>>

on_btn_clicked(state, cmd) ==
    IF IsPickState(state)
    THEN set_cmd(cmd) /\ focus_entry /\ UNCHANGED <<pc, launched>>
    ELSE exec_one(cmd) /\ quit
         /\ UNCHANGED <<text, matchlist, visible, hexpand, focus>>

-----------------------------------------------------------------------------
(* Events: one step of the GTK main loop each *)

\* whether on_btn_key_pressed returns True for the key
btn_handled(keyval) == keyval \in {"space", "Return"}

\* whether a key pressed with the focus where it is reaches the root box:
\* the Entry passes it on, or both on_btn_key_pressed and
\* on_scroller_key_pressed return False
ReachesRoot(keyval) ==
    focus = 0 \/ (~btn_handled(keyval) /\ keyval \in ScrollerPassKeys)

\* the typing cap of the model: the entry text grows to MaxLen at most
MayAppend(char) == Len(text) < MaxLen \/ char \in {<<>>, <<"BS">>}

Running == pc = "running"

frame == UNCHANGED <<path, commands, prevCommands, sub, full, result>>

\* main(): Launcher() builds the index, app.run activates and builds the UI
Start(seed) ==
    /\ pc = "new"
    /\ LET r == get_path_commands(path, seed)
       IN  IF r.raised
           THEN /\ pc' = "crashed"
                /\ commands' = <<>>
                /\ UNCHANGED uiVars
           ELSE /\ pc' = "running"
                /\ commands' = r.value
                /\ text' = <<>>
                /\ matchlist' = <<>>
                /\ visible' = FALSE
                /\ hexpand' = TRUE
                /\ focus' = 0
                /\ launched' = <<>>
    /\ ev' = NoEvent
    /\ UNCHANGED <<path, prevCommands, sub, full, result>>

\* the program is run again in the same environment
Restart ==
    /\ pc \in {"running", "terminated"}
    /\ pc' = "new"
    /\ prevCommands' = [built |-> TRUE, value |-> commands]
    /\ commands' = <<>>
    /\ text' = <<>>
    /\ matchlist' = <<>>
    /\ visible' = FALSE
    /\ hexpand' = TRUE
    /\ focus' = 0
    /\ launched' = <<>>
    /\ ev' = NoEvent
    /\ UNCHANGED <<path, sub, full, result>>

\* the user types the character c into the focused Entry, at the end of the
\* text: the entry emits "changed"
EntryInsert(c) ==
    /\ Running /\ focus = 0
    /\ Len(text) < MaxLen
    /\ text' = Append(text, c)
    /\ on_entry_changed(text')
    /\ UNCHANGED <<pc, focus, launched>>
    /\ ev' = ChangedEvent
    /\ frame

\* the user deletes the last character in the focused Entry: the entry emits
\* "changed"
EntryDelete ==
    /\ Running /\ focus = 0
    /\ text # <<>>
    /\ text' = SubSeq(text, 1, Len(text) - 1)
    /\ on_entry_changed(text')
    /\ UNCHANGED <<pc, focus, launched>>
    /\ ev' = ChangedEvent
    /\ frame

\* Return in the focused Entry: the entry emits "activate"
EntryActivate ==
    /\ Running /\ focus = 0
    /\ on_activate_entry
    /\ ev' = ActivateEvent
    /\ frame

\* a key pressed on the focused button that on_btn_key_pressed handles
ButtonKey(k, m) ==
    /\ btn_handled(k)
    /\ Running /\ focus > 0
    /\ (k = "space" => MayAppend(<<" ">>))
    /\ on_btn_key_pressed(k, m, matchlist[focus])
    /\ ev' = KeyEvent(k, m, IF k = "Return" THEN matchlist[focus] ELSE <<>>, "button")
    /\ frame

\* a key pressed on the focused button that on_scroller_key_pressed handles
ScrollerKey(k, m) ==
    /\ ~btn_handled(k)
    /\ k \notin ScrollerPassKeys
    /\ Running /\ focus > 0
    /\ MayAppend(keyval_to_unicode(k))
    /\ on_scroller_key_pressed(k, m)
    /\ ev' = KeyEvent(k, m, <<>>, "button")
    /\ frame

\* a key that reaches on_key_pressed on the root box and is handled there
RootKey(k, m) ==
    /\ Running
    /\ ReachesRoot(k)
    /\ on_key_pressed(k, m)
    /\ ev' = KeyEvent(k, m, <<>>, IF focus > 0 THEN "button" ELSE "entry")
    /\ frame

\* Tab and reverse-Tab, which every handler returns False for: GTK moves the
\* focus along the chain Entry, button 1, ..., button n
TraverseKey(k) ==
    /\ Running
    /\ k \in {"Tab", "KP_Tab", "ISO_Left_Tab"}
    /\ ReachesRoot(k)
    /\ ~(k = "Escape")
    /\ LET n == IF visible THEN Len(matchlist) ELSE 0
       IN  focus' = IF k = "ISO_Left_Tab" THEN (focus + n) % (n + 1)
                    ELSE (focus + 1) % (n + 1)
    /\ UNCHANGED <<pc, text, matchlist, visible, hexpand, launched>>
    /\ ev' = PassedEvent(k, IF focus > 0 THEN "button" ELSE "entry")
    /\ frame

\* a modifier key, which every handler returns False for
ModifierKey(k) ==
    /\ Running
    /\ k \in {"Shift_L", "Shift_R", "Control_L", "Control_R"}
    /\ ReachesRoot(k)
    /\ UNCHANGED <<pc, text, matchlist, visible, hexpand, focus, launched>>
    /\ ev' = PassedEvent(k, IF focus > 0 THEN "button" ELSE "entry")
    /\ frame

\* a pointer press on the i-th button
Click(i, m) ==
    /\ Running /\ visible
    /\ i \in 1..Len(matchlist)
    /\ on_btn_clicked(m, matchlist[i])
    /\ ev' = ClickEvent(m, matchlist[i])
    /\ frame

\* the key k pressed under the modifier state m while a button has the focus,
\* or a key the focused Entry does not consume
KeyPress(k, m) ==
    \/ ButtonKey(k, m)
    \/ ScrollerKey(k, m)
    \/ RootKey(k, m)
    \/ TraverseKey(k)
    \/ ModifierKey(k)

InitUI ==
    /\ pc = "new"
    /\ commands = <<>>
    /\ prevCommands = [built |-> FALSE, value |-> <<>>]
    /\ text = <<>>
    /\ matchlist = <<>>
    /\ visible = FALSE
    /\ hexpand = TRUE
    /\ focus = 0
    /\ launched = <<>>
    /\ ev = NoEvent

Init ==
    /\ path \in PathChoices
    /\ InitUI
    /\ sub = <<>> /\ full = <<>> /\ result = <<>>

\* the events of the main loop: any character of TypeChars typed, any key of
\* KeyVals under any modifier state, a pointer press on any button
EvEntryInsert == \E c \in TypeChars : EntryInsert(c)

EvButtonKey ==
    Running /\ focus > 0 /\ \E k \in KeyVals, m \in ModifierStates : ButtonKey(k, m)

EvScrollerKey ==
    Running /\ focus > 0 /\ \E k \in KeyVals, m \in ModifierStates : ScrollerKey(k, m)

EvRootKey == Running /\ \E k \in KeyVals, m \in ModifierStates : RootKey(k, m)

EvTraverseKey == Running /\ \E k \in KeyVals : TraverseKey(k)

EvModifierKey == Running /\ \E k \in KeyVals : ModifierKey(k)

EvClick ==
    Running /\ visible /\ \E i \in 1..Len(matchlist), m \in ModifierStates : Click(i, m)

Next ==
    \/ \E seed \in 0..MaxSeed : Start(seed)
    \/ EvEntryInsert
    \/ EntryDelete
    \/ EntryActivate
    \/ EvButtonKey
    \/ EvScrollerKey
    \/ EvRootKey
    \/ EvTraverseKey
    \/ EvModifierKey
    \/ EvClick

Spec == Init /\ [][Next]_vars

-----------------------------------------------------------------------------
(* The index build on its own, over every PATH of at most MaxPath components *)

InitBuild ==
    /\ path \in PathsUpTo(MaxPath)
    /\ InitUI
    /\ sub = <<>> /\ full = <<>> /\ result = <<>>

NextBuild ==
    \/ \E seed \in 0..MaxSeed : Start(seed)
    \/ Restart

SpecBuild == InitBuild /\ [][NextBuild]_vars

-----------------------------------------------------------------------------
(* subseqmatch on its own, over every pair of strings of at most MaxStr letters *)

MatchStrings == StringsOver({"a", "b"}, 0, MaxStr)

CallMatch ==
    /\ result = <<>>
    /\ result' = <<subseqmatch(sub, full)>>
    /\ UNCHANGED <<path, pc, commands, prevCommands, text, matchlist, visible,
                   hexpand, focus, launched, ev, sub, full>>

InitMatch ==
    /\ path = <<"">>
    /\ InitUI
    /\ sub \in MatchStrings /\ full \in MatchStrings /\ result = <<>>

NextMatch == CallMatch

SpecMatch == InitMatch /\ [][NextMatch]_vars

-----------------------------------------------------------------------------
(* Properties *)

\* the words a POSIX shell splits the line s into (quotes removed), for lines
\* of letters, blanks, single and double quotes
RECURSIVE ShellLex(_, _, _, _, _)
ShellLex(s, mode, cur, started, words) ==
    IF s = <<>> THEN (IF started THEN Append(words, cur) ELSE words)
    ELSE LET c == Head(s)
             r == Tail(s)
         IN  CASE mode = "single" ->
                    IF c = "'" THEN ShellLex(r, "plain", cur, TRUE, words)
                    ELSE ShellLex(r, "single", Append(cur, c), TRUE, words)
               [] mode = "double" ->
                    IF c = "\"" THEN ShellLex(r, "plain", cur, TRUE, words)
                    ELSE ShellLex(r, "double", Append(cur, c), TRUE, words)
               [] OTHER ->
                    IF c = "'" THEN ShellLex(r, "single", cur, TRUE, words)
                    ELSE IF c = "\"" THEN ShellLex(r, "double", cur, TRUE, words)
                    ELSE IF IsSpace(c)
                    THEN ShellLex(r, "plain", <<>>, FALSE,
                                  IF started THEN Append(words, cur) ELSE words)
                    ELSE ShellLex(r, "plain", Append(cur, c), TRUE, words)

ShellWords(s) == ShellLex(s, "plain", <<>>, FALSE, <<>>)

\* q occurs in c as a subsequence: at strictly increasing positions
IsSubsequence(q, c) ==
    \E f \in [1..Len(q) -> 1..Len(c)] :
        /\ \A i \in 1..Len(q) : c[f[i]] = q[i]
        /\ \A i, j \in 1..Len(q) : i < j => f[i] < f[j]

\* C3: subseqmatch(q, c) is true if and only if q is non-empty and occurs in c
\* as a subsequence; an empty q matches nothing, not even the empty string
C3_MatchIffSubsequence ==
    result # <<>> => (result[1] <=> (sub # <<>> /\ IsSubsequence(sub, full)))

C3_Witness ==
    /\ result = <<TRUE>>
    /\ sub = <<"a", "a">>
    /\ full = <<"a", "b", "a">>

\* the base names of the executable regular files in the directories of pth
ExecutableNames(pth) ==
    UNION { {e.name : e \in {x \in Entries(PathOf(pth[i])) : x.file /\ x.exec}} :
            i \in {j \in 1..Len(pth) : IsDir(PathOf(pth[j]))} }

\* a PATH component that is a directory the user may not list
HasUnreadableDir(pth) ==
    \E i \in 1..Len(pth) : IsDir(PathOf(pth[i])) /\ ~Readable(PathOf(pth[i]))

\* C2: a directory of PATH that exists but cannot be listed does not abort the
\* index build: the build completes with the executables of the other directories
C2_UnreadableDirSkipped ==
    (pc # "new" /\ HasUnreadableDir(path)) =>
        /\ pc = "running"
        /\ Range(commands) =
             UNION { {e.name : e \in {x \in Entries(PathOf(path[i])) : x.file /\ x.exec}} :
                     i \in {j \in 1..Len(path) :
                              IsDir(PathOf(path[j])) /\ Readable(PathOf(path[j]))} }

\* C5: the index holds each executable name once, in (length, name) order, and
\* a second build over the same PATH gives the same sequence
C5_IndexSortedUnique ==
    pc = "running" =>
        /\ Range(commands) = ExecutableNames(path)
        /\ \A i, j \in 1..Len(commands) :
              i < j =>
                /\ commands[i] # commands[j]
                /\ \/ Len(commands[i]) < Len(commands[j])
                   \/ /\ Len(commands[i]) = Len(commands[j])
                      /\ StrLess(commands[i], commands[j])
        /\ prevCommands.built => commands = prevCommands.value

C5_Witness ==
    /\ pc = "running"
    /\ prevCommands.built
    /\ path = <<"/usr/bin", "/bin">>
    /\ Len(commands) = 33

\* the 1-based place of name c in the index
IndexOf(index, c) == CHOOSE j \in 1..Len(index) : index[j] = c

\* ml is what the suggestion list has to be for the query t over index: the
\* matching names of index in index order, none skipped, cut after the first
\* MaxSuggestions
IsMatchListFor(ml, t, index) ==
    /\ Len(ml) <= MaxSuggestions
    /\ \A i \in 1..Len(ml) :
          /\ \E j \in 1..Len(index) : index[j] = ml[i]
          /\ subseqmatch(t, ml[i])
    /\ \A i \in 1..(Len(ml) - 1) : IndexOf(index, ml[i]) < IndexOf(index, ml[i + 1])
    /\ \A j \in 1..Len(index) :
          (subseqmatch(t, index[j]) /\ \A i \in 1..Len(ml) : ml[i] # index[j]) =>
              /\ Len(ml) = MaxSuggestions
              /\ j > IndexOf(index, ml[MaxSuggestions])

\* C4: the suggestion list is the first 20 (or all, if fewer) matching names of
\* the index, in index order
C4_MatchListIsPrefixOfFilter == IsMatchListFor(matchlist, text, commands)

C4_Witness ==
    /\ ev.type = "key"
    /\ Len(matchlist) = MaxSuggestions
    /\ Len(all_matches(text)) > MaxSuggestions
    /\ text = <<"a">>
    /\ focus = 0

\* C1: Return on a focused suggestion with Control held, whatever else is held
\* or locked, puts the quoted name into the entry, focuses the Entry, launches
\* nothing and does not terminate
C1_CtrlReturnPicks ==
    ( /\ ev.type = "key"
      /\ ev.key = "Return"
      /\ ev.on = "button"
      /\ "CONTROL_MASK" \in ev.mods ) =>
        /\ text = quote(ev.cmd)
        /\ focus = 0
        /\ launched = <<>>
        /\ pc = "running"

\* C6: in every running state Escape can be pressed, and every Escape press
\* ends in Terminated with nothing launched
C6_EscapeTerminates ==
    Running =>
        \A m \in ModifierStates :
            /\ ENABLED KeyPress("Escape", m)
            /\ ~ENABLED ( /\ KeyPress("Escape", m)
                          /\ ~(pc' = "terminated" /\ launched' = launched) )

C6_Witness ==
    /\ ev.type = "key" /\ ev.key = "Escape" /\ ev.on = "button"
    /\ pc = "terminated"
    /\ text # <<>>
    /\ visible
    /\ launched = <<>>

\* C7: Return on a focused suggestion without Control launches one process,
\* the shell reads its command as the single word that is the suggestion's
\* name, the entry text stays and the application terminates
C7_PlainReturnExecutes ==
    (Running /\ focus > 0) =>
        \A m \in {x \in ModifierStates : "CONTROL_MASK" \notin x} :
            /\ ENABLED KeyPress("Return", m)
            /\ ~ENABLED ( /\ KeyPress("Return", m)
                          /\ ~( /\ pc' = "terminated"
                                /\ text' = text
                                /\ Len(launched') = Len(launched) + 1
                                /\ SubSeq(launched', 1, Len(launched)) = launched
                                /\ launched'[Len(launched')].shell
                                /\ ShellWords(launched'[Len(launched')].args)
                                     = <<matchlist[focus]>> ) )

C7_Witness ==
    /\ ev.type = "key" /\ ev.key = "Return" /\ ev.on = "button"
    /\ "CONTROL_MASK" \notin ev.mods
    /\ ev.cmd = <<"a", "'", "b">>
    /\ pc = "terminated"
    /\ Len(launched) = 1

\* a is the line t without the blanks around it
IsLineOf(a, t) ==
    /\ a # <<>>
    /\ ~IsSpace(a[1]) /\ ~IsSpace(a[Len(a)])
    /\ \E i \in 0..Len(t) :
          /\ i + Len(a) <= Len(t)
          /\ SubSeq(t, i + 1, i + Len(a)) = a
          /\ \A n \in (1..i) \cup ((i + Len(a) + 1)..Len(t)) : IsSpace(t[n])

\* C8: activating the Entry on a text that is not blank launches one process,
\* through the shell, whose command is the typed line (the blanks around it
\* aside), and the application terminates
C8_ActivateRunsLine ==
    (Running /\ focus = 0 /\ \E i \in 1..Len(text) : ~IsSpace(text[i])) =>
        /\ ENABLED EntryActivate
        /\ ~ENABLED ( /\ EntryActivate
                      /\ ~( /\ pc' = "terminated"
                            /\ text' = text
                            /\ Len(launched') = Len(launched) + 1
                            /\ SubSeq(launched', 1, Len(launched)) = launched
                            /\ launched'[Len(launched')].shell
                            /\ IsLineOf(launched'[Len(launched')].args, text) ) )

C8_Witness ==
    /\ ev = ActivateEvent
    /\ text = <<"a", " ", "l">>
    /\ pc = "terminated"
    /\ launched = <<[args |-> <<"a", " ", "l">>, shell |-> TRUE]>>

\* C9: activating the Entry on an empty or blank text changes nothing
C9_ActivateBlankIsNoOp ==
    (Running /\ focus = 0 /\ \A i \in 1..Len(text) : IsSpace(text[i])) =>
        /\ ENABLED EntryActivate
        /\ ~ENABLED ( /\ EntryActivate
                      /\ ~UNCHANGED <<pc, text, matchlist, visible, hexpand,
                                      focus, launched>> )

C9_Witness ==
    /\ ev = ActivateEvent
    /\ text = <<" ">>
    /\ pc = "running"
    /\ matchlist = <<<<"a", " ", "b">>>>
    /\ visible
    /\ launched = <<>>

\* the keys of C10: outside the exempt set, neither Space nor BackSpace, with
\* a printable character
PrintableKeys ==
    { k \in KeyVals :
        /\ k \notin { "Tab", "KP_Tab", "ISO_Left_Tab", "Escape", "Return",
                      "Shift_L", "Shift_R", "Control_L", "Control_R" }
        /\ k \notin {"space", "BackSpace"}
        /\ Len(keyval_to_unicode(k)) = 1
        /\ Ord(keyval_to_unicode(k)[1]) > 32 }

\* C10: while a suggestion has the focus, a printable key appends its character
\* to the entry text, focuses the Entry, recomputes the suggestion list for the
\* new text and launches nothing
C10_BrowsingKeyAppends ==
    (Running /\ focus > 0) =>
        \A k \in PrintableKeys, m \in ModifierStates :
            /\ Len(text) < MaxLen => ENABLED KeyPress(k, m)
            /\ ~ENABLED ( /\ KeyPress(k, m)
                          /\ ~( /\ text' = text \o keyval_to_unicode(k)
                                /\ focus' = 0
                                /\ pc' = "running"
                                /\ launched' = launched
                                /\ IsMatchListFor(matchlist', text', commands) ) )

C10_Witness ==
    /\ ev.type = "key" /\ ev.key = "l" /\ ev.on = "button"
    /\ text = <<"l", "l">>
    /\ focus = 0
    /\ pc = "running"
    /\ matchlist = <<<<"l", "s", "b", "l", "k">>>>

\* C11: a pointer press on a suggestion does what Return on it does under the
\* same modifier state: with Control held the quoted name goes into the entry,
\* the Entry is focused and nothing is launched; without Control the name is
\* launched as one quoted word and the application terminates
C11_ClickSameAsReturn ==
    ev.type = "click" =>
        IF "CONTROL_MASK" \in ev.mods
        THEN /\ text = quote(ev.cmd)
             /\ focus = 0
             /\ launched = <<>>
             /\ pc = "running"
        ELSE /\ pc = "terminated"
             /\ Len(launched) = 1
             /\ launched[1].shell
             /\ ShellWords(launched[1].args) = <<ev.cmd>>

\* C12: the suggestion surface is visible exactly when the suggestion list is
\* not empty, and the entry expands exactly when the surface is hidden
C12_SurfaceFollowsMatchList ==
    /\ visible <=> matchlist # <<>>
    /\ hexpand <=> ~visible

C12_Witness ==
    /\ ev = ChangedEvent
    /\ Len(text) = 2
    /\ all_matches(SubSeq(text, 1, 1)) # <<>>
    /\ matchlist = <<>>
    /\ ~visible
    /\ hexpand

\* C13: while the entry text is empty the suggestion list is empty and the
\* suggestion surface is hidden
C13_EmptyQueryShowsNothing ==
    text = <<>> => (matchlist = <<>> /\ ~visible)

C13_Witness ==
    /\ ev = ChangedEvent
    /\ pc = "running"
    /\ text = <<>>
    /\ matchlist = <<>>
    /\ ~visible

\* C14: between two events the suggestion list is the one a recomputation over
\* the current entry text and the index gives
C14_MatchListNeverStale ==
    LET fresh == all_matches(text)
    IN  /\ matchlist = SubSeq(fresh, 1, Min(MaxSuggestions, Len(fresh)))
        /\ visible <=> fresh # <<>>

C14_Witness ==
    /\ ev.type = "click"
    /\ ev.mods = CONTROL_MASK
    /\ ev.cmd = <<"l", "s">>
    /\ text = <<"l", "s">>
    /\ focus = 0
    /\ matchlist = << <<"l", "s">>, <<"l", "s", "b", "l", "k">> >>

\* C15: while a suggestion has the focus, BackSpace removes the last character
\* of the entry text and no other, focuses the Entry, recomputes the suggestion
\* list and launches nothing; from a text of one character the text becomes
\* empty, the list empty and the surface hidden
C15_BrowsingBackspaceDeletes ==
    (Running /\ focus > 0) =>
        \A m \in ModifierStates :
            /\ ENABLED KeyPress("BackSpace", m)
            /\ ~ENABLED ( /\ KeyPress("BackSpace", m)
                          /\ ~( /\ Len(text') = Len(text) - 1
                                /\ text' = SubSeq(text, 1, Len(text) - 1)
                                /\ focus' = 0
                                /\ pc' = "running"
                                /\ launched' = launched
                                /\ IsMatchListFor(matchlist', text', commands)
                                /\ Len(text) = 1 =>
                                      (text' = <<>> /\ matchlist' = <<>> /\ ~visible') ) )

C15_Witness ==
    /\ ev.type = "key" /\ ev.key = "BackSpace" /\ ev.on = "button"
    /\ text = <<>>
    /\ matchlist = <<>>
    /\ ~visible
    /\ focus = 0
    /\ pc = "running"

\* C16: Space on a focused suggestion, under any modifier state, appends one
\* space to the entry text and focuses the Entry; it launches nothing and does
\* not terminate
C16_SpaceNeverActivates ==
    (Running /\ focus > 0) =>
        \A m \in ModifierStates :
            /\ Len(text) < MaxLen => ENABLED KeyPress("space", m)
            /\ ~ENABLED ( /\ KeyPress("space", m)
                          /\ ~( /\ text' = Append(text, " ")
                                /\ focus' = 0
                                /\ launched' = launched
                                /\ pc' = "running" ) )

C16_Witness ==
    /\ ev.type = "key" /\ ev.key = "space" /\ ev.on = "button"
    /\ ev.mods = {"SHIFT_MASK", "CONTROL_MASK"}
    /\ text = <<"a", " ">>
    /\ focus = 0
    /\ launched = <<>>
    /\ pc = "running"

\* the keys of C17: Tab, reverse-Tab, Shift, Control
TraversalAndModifierKeys ==
    KeyVals \cap { "Tab", "KP_Tab", "ISO_Left_Tab",
                   "Shift_L", "Shift_R", "Control_L", "Control_R" }

\* C17: while a suggestion has the focus, Tab, reverse-Tab, Shift and Control
\* change neither the entry text nor the suggestion list nor its visibility,
\* launch nothing and do not terminate; the focus stays on the Entry or a
\* suggestion, and does not move at all for Shift and Control
C17_PassKeysNotIntercepted ==
    (Running /\ focus > 0) =>
        \A k \in TraversalAndModifierKeys, m \in ModifierStates :
            /\ ENABLED KeyPress(k, m)
            /\ ~ENABLED ( /\ KeyPress(k, m)
                          /\ ~( /\ UNCHANGED <<text, matchlist, visible, hexpand,
                                               launched, pc>>
                                /\ focus' \in 0..Len(matchlist)
                                /\ k \in {"Shift_L", "Shift_R", "Control_L", "Control_R"}
                                      => focus' = focus ) )

C17_Witness ==
    /\ ev.type = "passed" /\ ev.key = "ISO_Left_Tab" /\ ev.on = "button"
    /\ focus = 1
    /\ Len(matchlist) > 1
    /\ pc = "running"
    /\ launched = <<>>

\* C18: while a suggestion has the focus it is a suggestion of the current
\* list; the list is then not empty, the entry text not empty and the surface
\* visible
C18_FocusedSuggestionExists ==
    (Running /\ focus > 0) =>
        /\ focus \in 1..Len(matchlist)
        /\ matchlist # <<>>
        /\ text # <<>>
        /\ visible

C18_Witness ==
    /\ pc = "running"
    /\ focus = MaxSuggestions
    /\ Len(matchlist) = MaxSuggestions
    /\ visible

\* C19: at most one process is launched; a launch happens in the step that
\* terminates the application, and after termination nothing is launched and
\* the entry text does not change
C19_AtMostOneLaunch ==
    [][ /\ Len(launched') <= 1
        /\ launched' # launched => (pc = "running" /\ pc' = "terminated")
        /\ pc = "terminated" => (launched' = launched /\ text' = text) ]_vars

C19_Witness ==
    /\ ev.type = "click"
    /\ pc = "terminated"
    /\ Len(launched) = 1

\* C20: after a pick of the name n, by Return or by pointer press, activating
\* the Entry before any edit launches what exec_one(n) launches: strip leaves
\* the picked text as it is and the shell is handed shlex.quote(n)
C20_PickThenRunEqualsRun ==
    ( /\ Running
      /\ \/ ev.type = "click"
         \/ ev.type = "key" /\ ev.key = "Return" /\ ev.on = "button"
      /\ IsPickState(ev.mods) ) =>
        /\ strip(text) = text
        /\ ENABLED EntryActivate
        /\ ~ENABLED ( /\ EntryActivate
                      /\ ~( /\ exec_one(ev.cmd)
                            /\ pc' = "terminated" ) )

C20_Witness ==
    /\ ev = ActivateEvent
    /\ pc = "terminated"
    /\ text = <<"'", "a", " ", "b", "'">>
    /\ launched = <<[args |-> <<"'", "a", " ", "b", "'">>, shell |-> TRUE]>>

====
